---- MODULE Spec2Model ----
(***************************************************************************)
(* Dependency-graph engine of src/main.py: build_graph (bounded iterative  *)
(* DFS over a dependency source) and compute_load_order (iterative         *)
(* post-order DFS with cycle detection), together with the two dependency  *)
(* sources: the fixture dictionary of test mode and the Packages index     *)
(* text scanned by extract_dependencies in live mode.                      *)
(***************************************************************************)
EXTENDS Integers, Sequences, FiniteSets

(* ------------------------------ bounds -------------------------------- *)

\* longest dependency list of one fixture line
MaxDeps == 2

\* total number of dependency references in one fixture or graph
MaxEdges == 4

\* largest --max-depth value tried
MaxDepth == 3

\* most stanzas in one Packages text
MaxBlocks == 2

\* total number of comma-separated pieces on the Depends lines of one text
MaxPieces == 2

(* --------------------------- package names ---------------------------- *)

\* names used in fixtures and graphs
Names == {"A", "B", "C", "D"}

\* start packages tried on fixtures: a fixture is any dict over Names and
\* test mode only compares names for equality, so every other start is one
\* of these under a renaming of the fixture
FixtureStarts == {"A", "D"}

\* names used in Packages stanzas; "A" is a proper prefix of "AB"
IndexNames == {"A", "AB", "B"}

\* names written on Depends lines
DependsWords == {"A", "B"}

\* the characters of a name (strings are atomic values here)
Chars(name) ==
    CASE name = ""   -> <<>>
      [] name = "A"  -> <<"A">>
      [] name = "B"  -> <<"B">>
      [] name = "C"  -> <<"C">>
      [] name = "D"  -> <<"D">>
      [] name = "AB" -> <<"A", "B">>

(* ------------------------------ helpers ------------------------------- *)

\* list(reversed(s))
Reversed(s) == [i \in 1..Len(s) |-> s[Len(s) + 1 - i]]

\* the elements of a list
Range(s) == {s[i] : i \in 1..Len(s)}

\* str.startswith on names
StartsWith(name, prefix) ==
    /\ Len(Chars(prefix)) <= Len(Chars(name))
    /\ SubSeq(Chars(name), 1, Len(Chars(prefix))) = Chars(prefix)

\* dict.get(key, [])
DictGet(d, key) == IF key \in DOMAIN d THEN d[key] ELSE <<>>

\* d[key] = value on a dict
DictSet(d, key, value) ==
    [k \in DOMAIN d \cup {key} |-> IF k = key THEN value ELSE d[k]]

\* sum of a list of numbers
RECURSIVE Sum(_)
Sum(lens) == IF lens = <<>> THEN 0 ELSE Head(lens) + Sum(Tail(lens))

\* the i-th of the consecutive slices of flat whose lengths are lens
Slice(flat, lens, i) ==
    LET off == Sum(SubSeq(lens, 1, i - 1))
    IN  SubSeq(flat, off + 1, off + lens[i])

(* ------------------------- dependency sources ------------------------- *)

\* the order in which fixture lines are written
NameSeq == <<"A", "B", "C", "D">>

\* the dict of a fixture that has a line for NameSeq[i] iff lens[i] >= 0,
\* with lens[i] dependencies taken in order from flat
FixtureDict(lens, flat) ==
    LET cnt == [i \in 1..Len(lens) |-> IF lens[i] < 0 THEN 0 ELSE lens[i]]
    IN  [name \in {NameSeq[i] : i \in {j \in 1..Len(lens) : lens[j] >= 0}} |->
            LET i == CHOOSE j \in 1..Len(lens) : NameSeq[j] = name
            IN  Slice(flat, cnt, i)]

\* number of dependencies on the lines of a fixture of shape lens
ShapeEdges(lens) ==
    Sum([i \in 1..Len(lens) |-> IF lens[i] < 0 THEN 0 ELSE lens[i]])

\* line lengths of a fixture (-1: no line for that name) within the bounds
FixtureShapes ==
    {lens \in [1..Len(NameSeq) -> -1..MaxDeps] :
        ShapeEdges(lens) <= MaxEdges}

\* one comma-separated piece of a Depends line: the name, written after a
\* space or directly after the comma (a version constraint may follow it)
Pieces == [space : BOOLEAN, word : DependsWords]

\* a stanza "Package: <pkg>" with a Depends line iff has_depends
Stanza(pkg, n, pieces) ==
    [pkg |-> pkg, has_depends |-> n > 0, pieces |-> pieces]

\* piece counts per stanza (0: the stanza has no Depends line)
TextShapes ==
    UNION {{lens \in [1..n -> 0..MaxPieces] : Sum(lens) <= MaxPieces} :
           n \in 0..MaxBlocks}

\* the Packages text with the given stanza names and Depends pieces
PackagesText(lens, pkgs, flat) ==
    [i \in 1..Len(lens) |-> Stanza(pkgs[i], lens[i], Slice(flat, lens, i))]

(* ------------------------------- state -------------------------------- *)

VARIABLES
    test_mode,      \* build_graph: argument test_mode
    full_graph,     \* build_graph: the fixture dict (test mode)
    packages_text,  \* build_graph: the Packages text (live mode)
    cache,          \* build_graph: memo of get_deps (live mode)
    start_pkg,      \* build_graph: argument start_pkg
    max_depth,      \* build_graph: argument max_depth
    result_graph,   \* build_graph: the dict being built
    queries,        \* history: the names passed to get_deps, in call order
    reported,       \* history: the nodes of the cycle messages printed
    paths,          \* history: for each work item of build_graph's stack,
                    \*          the chain of packages that led to it
    graph,          \* compute_load_order: argument graph
    start,          \* compute_load_order: argument start
    order,          \* compute_load_order: the post-order list
    load_order,     \* compute_load_order: the list returned (when pc = "returned")
    stack,          \* the work stack of the running function
    visited,        \* the visited set of the running function
    in_stack,       \* the in_stack set of the running function
    pc              \* "build" / "built" / "exit" for build_graph,
                    \* "order" / "returned" / "none" for compute_load_order

vars == <<test_mode, full_graph, packages_text, cache, start_pkg, max_depth,
          result_graph, queries, reported, paths, graph, start, order,
          load_order, stack, visited, in_stack, pc>>

buildVars == <<test_mode, full_graph, packages_text, cache, start_pkg,
               max_depth, result_graph, queries, reported, paths>>

orderVars == <<graph, start, order, load_order>>

\* an empty dict
EmptyDict == [k \in {} |-> <<>>]

\* the last element of a list
Top(s) == s[Len(s)]

\* a list without its last element
Pop(s) == SubSeq(s, 1, Len(s) - 1)

(* ------------------------ extract_dependencies ------------------------ *)

\* the names kept from a Depends line: raw.strip() removes a space before
\* the first piece; d.split(" ")[0] of a later piece that starts with a
\* space is the empty string
ParseDepends(pieces) ==
    [i \in 1..Len(pieces) |->
        IF i > 1 /\ pieces[i].space THEN "" ELSE pieces[i].word]

\* the stanzas whose text starts with "Package: " + package
MatchingBlocks(package, text) ==
    {i \in 1..Len(text) : StartsWith(text[i].pkg, package)}

\* extract_dependencies: the dependencies of the first matching stanza;
\* found = FALSE stands for the message and sys.exit(1)
extract_dependencies(package, text) ==
    LET hits == MatchingBlocks(package, text)
    IN  IF hits = {} THEN [found |-> FALSE, deps |-> <<>>]
        ELSE LET i == CHOOSE j \in hits : \A k \in hits : j <= k
             IN  [found |-> TRUE,
                  deps  |-> IF text[i].has_depends
                            THEN ParseDepends(text[i].pieces) ELSE <<>>]

(* ----------------------------- build_graph ---------------------------- *)

\* get_deps of test mode: full_graph.get(p, [])
TestGetDeps(p) == [found |-> TRUE, deps |-> DictGet(full_graph, p)]

\* get_deps of live mode: the cached list, else extract_dependencies
LiveGetDeps(pkg) ==
    IF pkg \in DOMAIN cache THEN [found |-> TRUE, deps |-> cache[pkg]]
    ELSE extract_dependencies(pkg, packages_text)

\* the get_deps closure build_graph defines for its mode
get_deps(p) == IF test_mode THEN TestGetDeps(p) ELSE LiveGetDeps(p)

\* mutant: the bound compared one level too late
DepthPrunedLate(depth) == depth > max_depth + 1

\* if depth > max_depth: continue
DepthPruned(depth) == depth > max_depth

\* mutant: the visited test dropped
NeverVisited(node) == FALSE

\* if node in visited: continue
AlreadyVisited(node) == node \in visited

\* if node in in_stack: print the cycle message and continue
OnStack(node) == node \in in_stack

\* mutant: the node is left in in_stack
in_stack_keep(s, node) == s

\* in_stack.remove(node)
in_stack_remove(s, node) == s \ {node}

\* for dep in reversed(deps): stack.append((dep, depth + 1))
PushDeps(s, deps, depth) ==
    s \o [i \in 1..Len(deps) |-> <<Reversed(deps)[i], depth + 1>>]

\* the start of build_graph, after its dependency source is set up
BuildInit ==
    /\ \/ /\ test_mode = TRUE
          /\ \E lens \in FixtureShapes :
                \E flat \in [1..ShapeEdges(lens) -> Names] :
                    full_graph = FixtureDict(lens, flat)
          /\ packages_text = <<>>
          /\ start_pkg \in FixtureStarts
       \/ /\ test_mode = FALSE
          /\ full_graph = EmptyDict
          /\ \E lens \in TextShapes :
                \E pkgs \in [1..Len(lens) -> IndexNames] :
                    \E flat \in [1..Sum(lens) -> Pieces] :
                        packages_text = PackagesText(lens, pkgs, flat)
          /\ start_pkg \in IndexNames
    /\ max_depth \in 1..MaxDepth
    /\ cache = EmptyDict
    /\ result_graph = EmptyDict
    /\ stack = <<<<start_pkg, 1>>>>
    /\ paths = <<<<>>>>
    /\ visited = {}
    /\ in_stack = {}
    /\ queries = <<>>
    /\ reported = <<>>
    /\ pc = "build"
    /\ graph = EmptyDict
    /\ start = ""
    /\ order = <<>>
    /\ load_order = <<>>

\* one iteration of build_graph's while loop
BuildStep ==
    /\ pc = "build"
    /\ stack # <<>>
    /\ LET node  == Top(stack)[1]
           depth == Top(stack)[2]
           path  == Top(paths)
       IN  IF DepthPruned(depth) \/ AlreadyVisited(node)
           THEN /\ stack' = Pop(stack)
                /\ paths' = Pop(paths)
                /\ UNCHANGED <<result_graph, cache, visited, in_stack,
                               queries, reported, pc>>
           ELSE IF OnStack(node)
           THEN /\ reported' = Append(reported, node)
                /\ stack' = Pop(stack)
                /\ paths' = Pop(paths)
                /\ UNCHANGED <<result_graph, cache, visited, in_stack,
                               queries, pc>>
           ELSE LET got == get_deps(node)
                IN  /\ queries' = Append(queries, node)
                    /\ IF got.found
                       THEN /\ result_graph' = DictSet(result_graph, node, got.deps)
                            /\ cache' = IF test_mode THEN cache
                                        ELSE DictSet(cache, node, got.deps)
                            /\ stack' = PushDeps(Pop(stack), got.deps, depth)
                            /\ paths' = Pop(paths) \o
                                        [i \in 1..Len(got.deps) |-> Append(path, node)]
                            /\ in_stack' = in_stack_remove(in_stack \cup {node}, node)
                            /\ visited' = visited \cup {node}
                            /\ UNCHANGED <<reported, pc>>
                       ELSE /\ pc' = "exit"
                            /\ in_stack' = in_stack \cup {node}
                            /\ stack' = Pop(stack)
                            /\ paths' = Pop(paths)
                            /\ UNCHANGED <<result_graph, cache, visited, reported>>
    /\ UNCHANGED <<test_mode, full_graph, packages_text, start_pkg, max_depth>>
    /\ UNCHANGED orderVars

\* the loop ends on an empty stack: return result_graph
BuildReturn ==
    /\ pc = "build"
    /\ stack = <<>>
    /\ pc' = "built"
    /\ UNCHANGED <<stack, visited, in_stack>>
    /\ UNCHANGED buildVars
    /\ UNCHANGED orderVars

BuildNext == BuildStep \/ BuildReturn

Spec == BuildInit /\ [][BuildNext]_vars

(* -------------------------- compute_load_order ------------------------ *)

\* if node in in_stack and not expanded: a cycle
CycleFound(node, expanded) == node \in in_stack /\ ~expanded

\* mutant: the visited test dropped
NeverSequenced(node) == FALSE

\* if node in visited: continue
AlreadySequenced(node) == node \in visited

\* mutant: the cycle is skipped as in build_graph instead of ending the run
SkipCycle ==
    /\ stack' = Pop(stack)
    /\ UNCHANGED <<order, visited, in_stack, load_order, pc>>

\* print the cycle message and return None
ReturnNone ==
    /\ pc' = "none"
    /\ stack' = Pop(stack)
    /\ UNCHANGED <<order, visited, in_stack, load_order>>

\* stack.append((node, True)), then stack.append((dep, False)) for each
\* dep of graph.get(node, []) in order
PushNode(s, node) ==
    LET deps == DictGet(graph, node)
    IN  Append(s, <<node, TRUE>>) \o [i \in 1..Len(deps) |-> <<deps[i], FALSE>>]

\* the start of compute_load_order on a graph and a start name
OrderInit ==
    /\ \E lens \in FixtureShapes :
          \E flat \in [1..ShapeEdges(lens) -> Names] :
              graph = FixtureDict(lens, flat)
    /\ start \in Names
    /\ visited = {}
    /\ in_stack = {}
    /\ order = <<>>
    /\ stack = <<<<start, FALSE>>>>
    /\ load_order = <<>>
    /\ pc = "order"
    /\ test_mode = TRUE
    /\ full_graph = EmptyDict
    /\ packages_text = <<>>
    /\ cache = EmptyDict
    /\ start_pkg = start
    /\ max_depth = 1
    /\ result_graph = EmptyDict
    /\ queries = <<>>
    /\ reported = <<>>
    /\ paths = <<>>

\* one iteration of compute_load_order's while loop
OrderStep ==
    /\ pc = "order"
    /\ stack # <<>>
    /\ LET node     == Top(stack)[1]
           expanded == Top(stack)[2]
       IN  IF CycleFound(node, expanded)
           THEN ReturnNone
           ELSE IF AlreadySequenced(node)
           THEN /\ stack' = Pop(stack)
                /\ UNCHANGED <<order, visited, in_stack, load_order, pc>>
           ELSE IF expanded
           THEN /\ order' = Append(order, node)
                /\ visited' = visited \cup {node}
                /\ in_stack' = in_stack \ {node}
                /\ stack' = Pop(stack)
                /\ UNCHANGED <<load_order, pc>>
           ELSE /\ in_stack' = in_stack \cup {node}
                /\ stack' = PushNode(Pop(stack), node)
                /\ UNCHANGED <<order, visited, load_order, pc>>
    /\ UNCHANGED <<graph, start>>
    /\ UNCHANGED buildVars

\* the loop ends on an empty stack: return list(reversed(order))
OrderReturn ==
    /\ pc = "order"
    /\ stack = <<>>
    /\ load_order' = Reversed(order)
    /\ pc' = "returned"
    /\ UNCHANGED <<graph, start, order, stack, visited, in_stack>>
    /\ UNCHANGED buildVars

OrderNext == OrderStep \/ OrderReturn

SpecOrder == OrderInit /\ [][OrderNext]_vars

(* ------------------------- graph-theoretic terms ---------------------- *)

\* the names listed as dependencies of n in dict g
Succ(g, n) == Range(DictGet(g, n))

\* the names reachable from the set S by following the entries of g
RECURSIVE ReachFrom(_, _)
ReachFrom(g, S) ==
    LET T == S \cup UNION {Succ(g, n) : n \in S}
    IN  IF T = S THEN S ELSE ReachFrom(g, T)

\* some cycle (a self-loop included) can be reached from s in g
CycleReachable(g, s) ==
    \E n \in ReachFrom(g, {s}) : n \in ReachFrom(g, Succ(g, n))

\* what the dependency source answers for a name (nothing if it aborts)
SourceDeps(n) == Range(get_deps(n).deps)

\* the names on some path from start_pkg of at most d nodes in the source
RECURSIVE WithinDepth(_)
WithinDepth(d) ==
    IF d <= 1 THEN {start_pkg}
    ELSE LET W == WithinDepth(d - 1)
         IN  W \cup UNION {SourceDeps(n) : n \in W}

\* the name has no entry of its own in the backing index
AbsentFromIndex(n) ==
    IF test_mode THEN n \notin DOMAIN full_graph
    ELSE \A i \in 1..Len(packages_text) : packages_text[i].pkg # n

\* the positions of name n in list s
Positions(s, n) == {i \in 1..Len(s) : s[i] = n}

(* ---------------------- claims on compute_load_order ------------------ *)

\* C1: in a returned sequence, every dependency of a graph key that is
\* itself a graph key appears strictly before that key.
C1_DependenciesFirst ==
    pc = "returned" =>
        \A i \in 1..Len(load_order) :
            load_order[i] \in DOMAIN graph =>
                \A dep \in Succ(graph, load_order[i]) \cap DOMAIN graph :
                    \E j \in 1..(i - 1) : load_order[j] = dep

\* C2: when a cycle is reachable from start, the function returns None
\* and never a sequence.
C2_CycleReturnsNone ==
    (pc \in {"returned", "none"} /\ CycleReachable(graph, start)) => pc = "none"

C2_Witness ==
    /\ pc = "none"
    /\ start = "A"
    /\ DOMAIN graph = {"A", "B"}
    /\ graph["A"] = <<"B">>
    /\ graph["B"] = <<"A">>

\* C3: when no cycle is reachable from start, the function returns a
\* sequence holding exactly the names reachable from start, each once.
C3_TotalOnDag ==
    (pc \in {"returned", "none"} /\ ~CycleReachable(graph, start)) =>
        /\ pc = "returned"
        /\ Range(load_order) = ReachFrom(graph, {start})
        /\ \A n \in Range(load_order) : Cardinality(Positions(load_order, n)) = 1

\* a returned sequence for a graph in which one name is a dependency of two
\* keys, one name is listed twice in a list, and one name is no key
C3_Witness ==
    /\ pc = "returned"
    /\ \E n \in Range(load_order) :
          Cardinality({k \in DOMAIN graph \cap Range(load_order) :
                          n \in Succ(graph, k)}) >= 2
    /\ \E k \in DOMAIN graph \cap Range(load_order), n \in Names :
          Cardinality(Positions(graph[k], n)) >= 2
    /\ \E n \in Range(load_order) : n \notin DOMAIN graph

(* -------------------------- claims on build_graph --------------------- *)

\* C4: when the start package is absent from the backing index, the run
\* aborts: build_graph never returns and never records an entry for it.
C4_AbsentStartAborts ==
    AbsentFromIndex(start_pkg) =>
        (pc # "built" /\ start_pkg \notin DOMAIN result_graph)

\* C5: whenever the work item taken from the stack is a package that lies
\* on the chain of packages that led to it (within the depth bound), a
\* cycle message for that package is printed.
C5_BackEdgeReported ==
    [][(pc = "build" /\ stack # <<>>
          /\ ~DepthPruned(Top(stack)[2])
          /\ Top(stack)[1] \in Range(Top(paths)))
       => reported' = Append(reported, Top(stack)[1])]_vars

\* C6: every key of the graph under construction lies on some path from
\* the start of at most max_depth nodes.
C6_DepthBound == DOMAIN result_graph \subseteq WithinDepth(max_depth)

C6_Witness ==
    /\ pc = "built"
    /\ test_mode
    /\ start_pkg = "A"
    /\ max_depth = 2
    /\ DOMAIN full_graph = {"A", "B", "C"}
    /\ full_graph["C"] = <<"D">>
    /\ DOMAIN result_graph = {"A", "B"}
    /\ result_graph["A"] = <<"B">>
    /\ result_graph["B"] = <<"C">>

\* C7: no name is passed to get_deps twice, and when build_graph returns
\* the number of calls equals the number of visited packages, which are
\* the keys of the graph.
C7_QueriedOnce ==
    /\ \A i, j \in 1..Len(queries) : queries[i] = queries[j] => i = j
    /\ pc = "built" =>
          /\ Len(queries) = Cardinality(visited)
          /\ Len(queries) = Cardinality(DOMAIN result_graph)

\* a finished run in which an expanded package is referenced more than once
C7_Witness ==
    /\ pc = "built"
    /\ \E n \in DOMAIN result_graph :
          \/ \E k \in DOMAIN result_graph :
                Cardinality(Positions(result_graph[k], n)) >= 2
          \/ Cardinality({k \in DOMAIN result_graph :
                             n \in Succ(result_graph, k)}) >= 2

\* C8: a dependency (a name looked up after the start package) that is
\* absent from the index is recorded with an empty dependency list.
C8_MissingDependencyIsLeaf ==
    \A i \in 2..Len(queries) :
        AbsentFromIndex(queries[i]) =>
            /\ queries[i] \in DOMAIN result_graph
            /\ result_graph[queries[i]] = <<>>

\* C9: at every pop point and at the end, visited and in_stack are
\* disjoint and every key of the graph is visited.
C9_SetsDisjoint ==
    /\ visited \cap in_stack = {}
    /\ DOMAIN result_graph \subseteq visited

C9_Witness ==
    /\ pc = "build"
    /\ stack # <<>>
    /\ Cardinality(visited) >= 2
    /\ Top(stack)[1] \in visited

\* C10: when build_graph returns, every package on some path from the
\* start of at most max_depth nodes is a key of the graph.
C10_AllWithinDepthAreKeys ==
    pc = "built" => WithinDepth(max_depth) \subseteq DOMAIN result_graph

====
